---- MODULE Spec2Model ----
(***************************************************************************)
(* Fire infrastructure coverage worker (src/src/workers/coverage.worker.js) *)
(*                                                                         *)
(* Coordinates are fixed-point: one unit ("tick") is 0.0001 degree, so the *)
(* hydrant grid's cell size 0.005 is 50 ticks and the station grid's 0.01  *)
(* is 100 ticks.  Distances are whole feet.                                *)
(***************************************************************************)
EXTENDS Integers, Sequences, FiniteSets, TLC

VARIABLES
    sg,                      \* one SpatialGrid instance driven method by method
    nearest,                 \* the last findNearest call on sg and what it returned
    hydrantGrid,             \* worker global, line 154
    stationGrid,             \* worker global, line 155
    addressesWithDistances,  \* worker global, line 156
    hydrantsList,            \* worker global, line 157
    stationsList,            \* worker global, line 158
    request,                 \* e.data of the message handled last
    posted,                  \* messages that handler posted, in order
    feature,                 \* one GeoJSON feature put to the polygon functions
    answer,                  \* the last polygon function call and what it returned
    inbox,                   \* requests posted to the worker and not yet handled
    outbox,                  \* messages the worker posted, not yet taken by a caller
    arrived,                 \* every request posted to the worker, in arrival order
    hookState,               \* the useState values of useWorker as last set
    rendered,                \* what the last render of useWorker saw
    datasets,                \* the caller's hydrants, stations and addresses
    workerRef,               \* workerRef.current
    pendingCallbackRef,      \* pendingCallbackRef.current
    history                  \* requestZipAnalysis calls and the responses taken

gridVars == <<sg, nearest>>
workerVars == <<hydrantGrid, stationGrid, addressesWithDistances,
                hydrantsList, stationsList, request, posted>>
polyVars == <<feature, answer>>
queueVars == <<inbox, outbox, arrived>>
hookVars == <<hookState, rendered, datasets, workerRef, pendingCallbackRef,
              history>>
vars == <<sg, nearest, hydrantGrid, stationGrid, addressesWithDistances,
          hydrantsList, stationsList, request, posted, feature, answer,
          inbox, outbox, arrived, hookState, rendered, datasets, workerRef,
          pendingCallbackRef, history>>

-----------------------------------------------------------------------------
(* Numbers *)

\* JavaScript's Infinity: larger than every distance, absorbing under +.
Infinity == 2147483647

\* JavaScript's null, as a value that differs from every point and payload.
Null == [null |-> TRUE]

\* JavaScript's undefined: what reading a property an object lacks gives.
Undefined == [undefined |-> TRUE]

Abs(x) == IF x < 0 THEN -x ELSE x

\* A first guess for the square root of x >= 1: at least the root, at most
\* ten times the root.
SqrtStart(x) ==
    IF x < 100 THEN 10
    ELSE IF x < 10000 THEN 100
    ELSE IF x < 1000000 THEN 1000
    ELSE IF x < 100000000 THEN 10000
    ELSE 46340

\* One step of Newton's iteration from the guess r >= 1.
SqrtStep(x, r) == (r + x \div r) \div 2

\* The iteration comes to rest on the root or, when x + 1 is a square, one
\* above it.
SqrtFloor(x, r) == IF r * r > x THEN r - 1 ELSE r

\* Math.sqrt on whole numbers: the largest r with r*r <= x.  Seven steps
\* bring any guess of SqrtStart to rest.
Sqrt(x) ==
    IF x = 0 THEN 0
    ELSE SqrtFloor(x,
           SqrtStep(x, SqrtStep(x, SqrtStep(x, SqrtStep(x,
           SqrtStep(x, SqrtStep(x, SqrtStep(x, SqrtStart(x)))))))))

\* Math.cos(lat * Math.PI / 180) scaled by 10^4, lat in ticks, by the Taylor
\* series 1 - x^2/2 + x^4/24 - x^6/720 with x in units of 10^-4 radian.
Cos(lat) ==
    LET x  == (Abs(lat) * 1745) \div 100000
        x2 == (x * x) \div 10000
        x4 == (x2 * x2) \div 10000
        x6 == (x4 * x2) \div 10000
    IN  10000 - (x2 \div 2) + (x4 \div 24) - (x6 \div 720)

\* Earth's radius in feet.
R == 20902231

\* R * PI / 180 per tick, in thousandths of a foot (36480).
FeetPerTick == ((R \div 1000) * 17453) \div 10000

(* haversineDistance.  For the angles of the model (well under a degree)  *)
(* sin(d/2) = d/2 and atan2(sqrt a, sqrt(1-a)) = sqrt a to within the      *)
(* fixed-point step, so R*c = R*sqrt(dLat^2 + cos(lat1)*cos(lat2)*dLon^2). *)
(* Two precisions keep the radicand inside 32 bits: deltas of at most 300  *)
(* ticks are computed to a hundredth of a tick, larger ones to a tick.     *)
haversineDistance(lat1, lon1, lat2, lon2) ==
    LET dLat == lat2 - lat1
        dLon == lon2 - lon1
        cc   == (Cos(lat1) * Cos(lat2)) \div 10000
    IN  IF Abs(dLat) <= 300 /\ Abs(dLon) <= 300
        THEN (Sqrt(10000 * dLat * dLat + cc * dLon * dLon) * FeetPerTick)
                 \div 100000
        ELSE (Sqrt(dLat * dLat + (cc * ((dLon * dLon) \div 100)) \div 100)
                 * FeetPerTick) \div 1000

-----------------------------------------------------------------------------
(* class SpatialGrid *)

EmptyMap == [k \in {} |-> <<>>]

\* constructor
NewSpatialGrid(cellSizeDegrees) ==
    [cellSize |-> cellSizeDegrees, grid |-> EmptyMap, allPoints |-> <<>>]

\* clear() that forgets to drop the buckets.
ClearPointsOnly(g) == [g EXCEPT !.allPoints = <<>>]

\* clear()
Clear(g) == [g EXCEPT !.grid = EmptyMap, !.allPoints = <<>>]

\* getCell(lat, lon): the key `${cellX},${cellY}` as the pair <<cellX, cellY>>.
\* \div rounds toward minus infinity, as Math.floor does.
GetCell(g, lat, lon) == <<lon \div g.cellSize, lat \div g.cellSize>>

\* insert that overwrites the bucket of the cell instead of appending to it.
InsertOverwriting(g, lat, lon, data) ==
    LET point == [lat |-> lat, lon |-> lon, data |-> data,
                  id |-> Len(g.allPoints) + 1]
        cell  == <<lon \div g.cellSize, lat \div g.cellSize>>
    IN  [g EXCEPT
            !.allPoints = Append(@, point),
            !.grid = [k \in DOMAIN g.grid \cup {cell} |->
                        IF k = cell THEN <<point>> ELSE g.grid[k]]]

\* insert(lat, lon, data).  `id` stands for the identity of the object that
\* `{ lat, lon, data }` creates: the same object is pushed to allPoints and to
\* the bucket.
Insert(g, lat, lon, data) ==
    LET point == [lat |-> lat, lon |-> lon, data |-> data,
                  id |-> Len(g.allPoints) + 1]
        cell  == GetCell(g, lat, lon)
        old   == IF cell \in DOMAIN g.grid THEN g.grid[cell] ELSE <<>>
    IN  [g EXCEPT
            !.allPoints = Append(@, point),
            !.grid = [k \in DOMAIN g.grid \cup {cell} |->
                        IF k = cell THEN Append(old, point) ELSE g.grid[k]]]

\* The order in which getNearbyPoints visits cells: dx outer, dy inner.
CellBefore(a, b) == a[1] < b[1] \/ (a[1] = b[1] /\ a[2] <= b[2])

RECURSIVE PushCells(_, _)
PushCells(g, cells) ==
    IF cells = {} THEN <<>>
    ELSE LET c == CHOOSE a \in cells : \A b \in cells : CellBefore(a, b)
         IN  g.grid[c] \o PushCells(g, cells \ {c})

\* getNearbyPoints(lat, lon, radiusCells).  The double loop visits every cell
\* of the block in CellBefore order and appends the bucket of each cell that
\* has one; cells without a bucket add nothing, so only the stored keys inside
\* the block are walked here.
GetNearbyPoints(g, lat, lon, radiusCells) ==
    LET centerCellX == lon \div g.cellSize
        centerCellY == lat \div g.cellSize
    IN  PushCells(g, {c \in DOMAIN g.grid :
                        /\ c[1] >= centerCellX - radiusCells
                        /\ c[1] <= centerCellX + radiusCells
                        /\ c[2] >= centerCellY - radiusCells
                        /\ c[2] <= centerCellY + radiusCells})

\* The inner loop without its comparison: the last candidate wins.
RECURSIVE BestLast(_, _, _, _, _)
BestLast(candidates, i, lat, lon, best) ==
    IF i > Len(candidates) THEN best
    ELSE LET point == candidates[i]
             dist  == haversineDistance(lat, lon, point.lat, point.lon)
         IN  BestLast(candidates, i + 1, lat, lon,
                      [point |-> point, distance |-> dist])

\* The inner loop of findNearest: keep the first candidate of least distance.
RECURSIVE Best(_, _, _, _, _)
Best(candidates, i, lat, lon, best) ==
    IF i > Len(candidates) THEN best
    ELSE LET point == candidates[i]
             dist  == haversineDistance(lat, lon, point.lat, point.lon)
         IN  IF dist < best.distance
             THEN Best(candidates, i + 1, lat, lon,
                       [point |-> point, distance |-> dist])
             ELSE Best(candidates, i + 1, lat, lon, best)

\* The hard cap on search rings.
MaxRadius == 20

\* The ring loop with `radius < 20` for `radius <= 20`.
RECURSIVE FindFromExclusive(_, _, _, _)
FindFromExclusive(g, lat, lon, radius) ==
    IF radius >= MaxRadius THEN [point |-> Null, distance |-> Infinity]
    ELSE LET candidates == GetNearbyPoints(g, lat, lon, radius)
         IN  IF Len(candidates) > 0
             THEN Best(candidates, 1, lat, lon,
                       [point |-> Null, distance |-> Infinity])
             ELSE FindFromExclusive(g, lat, lon, radius + 1)

\* The ring loop of findNearest, from `radius` on.
RECURSIVE FindFrom(_, _, _, _)
FindFrom(g, lat, lon, radius) ==
    IF radius > MaxRadius THEN [point |-> Null, distance |-> Infinity]
    ELSE LET candidates == GetNearbyPoints(g, lat, lon, radius)
         IN  IF Len(candidates) > 0
             THEN Best(candidates, 1, lat, lon,
                       [point |-> Null, distance |-> Infinity])
             ELSE FindFrom(g, lat, lon, radius + 1)

\* findNearest(lat, lon)
FindNearest(g, lat, lon) == FindFrom(g, lat, lon, 1)

-----------------------------------------------------------------------------
(* Worker globals and message handlers *)

\* new SpatialGrid(0.005) and new SpatialGrid(0.01), in ticks.
HydrantCellSize == 50
StationCellSize == 100

\* JavaScript's NaN (0 / 0).
NaN == -1

Plus(a, b) == IF a = Infinity \/ b = Infinity THEN Infinity ELSE a + b

\* a / n for a sum of distances a >= 0 and a count n >= 0, to a whole foot.
Divide(a, n) ==
    IF n = 0 THEN (IF a = 0 THEN NaN ELSE Infinity)
    ELSE IF a = Infinity THEN Infinity
    ELSE a \div n

\* (count / n * 100).toFixed(1) for whole numbers 0 <= count <= n.
ToFixed1(count, n) ==
    IF n = 0 THEN "NaN"
    ELSE LET tenths == (2000 * count + n) \div (2 * n)
         IN  ToString(tenths \div 10) \o "." \o ToString(tenths % 10)

\* { ...addr, <extra fields> }: the fields of extra win.
Spread(addr, extra) ==
    [f \in DOMAIN addr \cup DOMAIN extra |->
        IF f \in DOMAIN extra THEN extra[f] ELSE addr[f]]

RECURSIVE InsertAll(_, _, _, _)
InsertAll(g, list, i, withData) ==
    IF i > Len(list) THEN g
    ELSE InsertAll(Insert(g, list[i].lat, list[i].lon,
                          IF withData THEN list[i] ELSE Null),
                   list, i + 1, withData)

ONE_MILE_FT == 5280

\* The fields the loop body adds to an address, from the two lookups.
\* The fields with underserved for every distance over 500 ft.
DistanceFieldsOverlapping(nearestHydrant, nearestStation) ==
    [nearestHydrantDist |-> nearestHydrant.distance,
     nearestStationDist |-> nearestStation.distance,
     nearestStationData |->
         IF nearestStation.point = Null THEN Null
         ELSE nearestStation.point.data,
     within500ft       |-> nearestHydrant.distance <= 500,
     within1000ft      |-> nearestHydrant.distance <= 1000,
     underserved       |-> nearestHydrant.distance > 500,
     withinStationMile |-> nearestStation.distance <= ONE_MILE_FT]

\* The fields with `nearestHydrant.point !== null &&` before the test of
\* underserved: an address without a hydrant in reach is not underserved.
DistanceFieldsFoundOnly(nearestHydrant, nearestStation) ==
    [nearestHydrantDist |-> nearestHydrant.distance,
     nearestStationDist |-> nearestStation.distance,
     nearestStationData |->
         IF nearestStation.point = Null THEN Null
         ELSE nearestStation.point.data,
     within500ft       |-> nearestHydrant.distance <= 500,
     within1000ft      |-> nearestHydrant.distance <= 1000,
     underserved       |-> nearestHydrant.point # Null
                              /\ nearestHydrant.distance > 1000,
     withinStationMile |-> nearestStation.distance <= ONE_MILE_FT]

DistanceFields(nearestHydrant, nearestStation) ==
    [nearestHydrantDist |-> nearestHydrant.distance,
     nearestStationDist |-> nearestStation.distance,
     nearestStationData |->
         IF nearestStation.point = Null THEN Null
         ELSE nearestStation.point.data,
     within500ft       |-> nearestHydrant.distance <= 500,
     within1000ft      |-> nearestHydrant.distance <= 1000,
     underserved       |-> nearestHydrant.distance > 1000,
     withinStationMile |-> nearestStation.distance <= ONE_MILE_FT]

\* The loop body with < for <= in the threshold tests.
DistanceRecordStrict(addr, hGrid, sGrid, sList) ==
    LET nearestHydrant == FindNearest(hGrid, addr.lat, addr.lon)
        nearestStation ==
            IF Len(sList) > 0 THEN FindNearest(sGrid, addr.lat, addr.lon)
            ELSE [point |-> Null, distance |-> Infinity]
    IN  Spread(addr,
           [nearestHydrantDist |-> nearestHydrant.distance,
            nearestStationDist |-> nearestStation.distance,
            nearestStationData |->
                IF nearestStation.point = Null THEN Null
                ELSE nearestStation.point.data,
            within500ft       |-> nearestHydrant.distance < 500,
            within1000ft      |-> nearestHydrant.distance < 1000,
            underserved       |-> nearestHydrant.distance > 1000,
            withinStationMile |-> nearestStation.distance < ONE_MILE_FT])

\* One iteration of the loop of precomputeAddressDistances: the record pushed
\* for addr.
DistanceRecord(addr, hGrid, sGrid, sList) ==
    Spread(addr,
           DistanceFields(
               FindNearest(hGrid, addr.lat, addr.lon),
               IF Len(sList) > 0 THEN FindNearest(sGrid, addr.lat, addr.lon)
               ELSE [point |-> Null, distance |-> Infinity]))

\* records.filter(a => a[flag]).length
CountFlag(records, flag) ==
    Cardinality({i \in 1..Len(records) : records[i][flag]})

\* The sum of a[field] over the records lo..hi, by halves so that a table
\* of thousands of records is summed without deep nesting.
RECURSIVE SumRange(_, _, _, _)
SumRange(records, field, lo, hi) ==
    IF lo > hi THEN 0
    ELSE IF lo = hi THEN records[lo][field]
    ELSE Plus(SumRange(records, field, lo, (lo + hi) \div 2),
              SumRange(records, field, (lo + hi) \div 2 + 1, hi))

\* records.reduce((sum, a) => sum + a[field], 0), from record i on.
SumField(records, field, i) == SumRange(records, field, i, Len(records))

\* The summary without the `stationsList.length > 0` tests.
SummaryUnguarded(records, sList) ==
    LET n                 == Len(records)
        within500         == CountFlag(records, "within500ft")
        within1000        == CountFlag(records, "within1000ft")
        underserved       == CountFlag(records, "underserved")
        withinStationMile == CountFlag(records, "withinStationMile")
    IN  [within500ft        |-> within500,
         within1000ft       |-> within1000,
         underserved        |-> underserved,
         withinStationMile  |-> withinStationMile,
         avgDistance        |->
             Divide(SumField(records, "nearestHydrantDist", 1), n),
         avgStationDistance |->
             Divide(SumField(records, "nearestStationDist", 1), n),
         pctWithin500       |-> ToFixed1(within500, n),
         pctWithin1000      |-> ToFixed1(within1000, n),
         pctWithinStationMile |-> ToFixed1(withinStationMile, n)]

\* The summary object of the addressDistancesReady message.
Summary(records, sList) ==
    LET n                 == Len(records)
        within500         == CountFlag(records, "within500ft")
        within1000        == CountFlag(records, "within1000ft")
        underserved       == CountFlag(records, "underserved")
        withinStationMile == CountFlag(records, "withinStationMile")
    IN  [within500ft        |-> within500,
         within1000ft       |-> within1000,
         underserved        |-> underserved,
         withinStationMile  |-> withinStationMile,
         avgDistance        |->
             Divide(SumField(records, "nearestHydrantDist", 1), n),
         avgStationDistance |->
             IF Len(sList) > 0
             THEN Divide(SumField(records, "nearestStationDist", 1), n)
             ELSE 0,
         pctWithin500       |-> ToFixed1(within500, n),
         pctWithin1000      |-> ToFixed1(within1000, n),
         pctWithinStationMile |->
             IF Len(sList) > 0 THEN ToFixed1(withinStationMile, n) ELSE "0"]

\* A progress message is posted after every 5000th record.
ProgressEvery == 5000

\* Progress posted when `i % 5000 === 0` for `(i + 1) % 5000 === 0`: after
\* the first record of each chunk.
ProgressMessagesAtChunkStart(total) ==
    [k \in 1..((total + ProgressEvery - 1) \div ProgressEvery) |->
        [type |-> "progress", task |-> "precomputeAddressDistances",
         current |-> (k - 1) * ProgressEvery + 1, total |-> total]]

ProgressMessages(total) ==
    [k \in 1..(total \div ProgressEvery) |->
        [type |-> "progress", task |-> "precomputeAddressDistances",
         current |-> k * ProgressEvery, total |-> total]]

-----------------------------------------------------------------------------
(* Polygons.  A position is <<lon, lat>> in ticks, in GeoJSON's order; an  *)
(* area is in millionths of a square mile.                                 *)

\* Whether the edge coords[j] -> coords[i] toggles `inside`.  The quotient
\* of the source is cleared by multiplying both sides with yj - yi, which
\* the first test makes non-zero.
Crosses(coords, i, j, lat, lon) ==
    LET xi == coords[i][1]
        yi == coords[i][2]
        xj == coords[j][1]
        yj == coords[j][2]
    IN  /\ (yi > lat) # (yj > lat)
        /\ IF yj > yi
           THEN (lon - xi) * (yj - yi) < (xj - xi) * (lat - yi)
           ELSE (lon - xi) * (yj - yi) > (xj - xi) * (lat - yi)

\* The ray cast without the edge from the last position back to the first.
RingContainsOpen(coords, lat, lon) ==
    Cardinality({i \in 2..Len(coords) :
                    Crosses(coords, i, i - 1, lat, lon)}) % 2 = 1

\* The inner loop: `inside` after one toggle per crossing edge, j running
\* one position behind i and starting at the last position.
RingContains(coords, lat, lon) ==
    Cardinality({i \in 1..Len(coords) :
                    Crosses(coords, i, IF i = 1 THEN Len(coords) ELSE i - 1,
                            lat, lon)}) % 2 = 1

pointInPolygon(lat, lon, polygon) ==
    LET geomType == polygon.geometry.type
        rings ==
            IF geomType = "Polygon"
            THEN <<polygon.geometry.coordinates[1]>>
            ELSE [p \in 1..Len(polygon.geometry.coordinates) |->
                     polygon.geometry.coordinates[p][1]]
    IN  IF geomType \notin {"Polygon", "MultiPolygon"} THEN FALSE
        ELSE \E r \in 1..Len(rings) : RingContains(rings[r], lat, lon)

\* floor(a * b / c) for a >= 0, without forming a * b.
MulDiv(a, b, c) == (a \div c) * b + ((a % c) * b) \div c

\* coords.reduce((sum, c) => sum + c[1], 0)
RECURSIVE SumLat(_, _)
SumLat(coords, i) ==
    IF i > Len(coords) THEN 0 ELSE coords[i][2] + SumLat(coords, i + 1)

\* The sum of lon[i] * lat[i+1] - lon[i+1] * lat[i] over i < length - 1, in
\* square ticks.  Each term is written out around the first position
\* (x0, y0), which is the same number and keeps every product in 32 bits.
RECURSIVE Shoelace(_, _)
Shoelace(coords, i) ==
    IF i >= Len(coords) THEN 0
    ELSE LET x0 == coords[1][1]
             y0 == coords[1][2]
             dx1 == coords[i][1] - x0
             dy1 == coords[i][2] - y0
             dx2 == coords[i + 1][1] - x0
             dy2 == coords[i + 1][2] - y0
         IN  x0 * (dy2 - dy1) + y0 * (dx1 - dx2) + dx1 * dy2 - dx2 * dy1
                 + Shoelace(coords, i + 1)

\* Math.abs(area / 2) with x = lon * 69 * cos(avgLat) and y = lat * 69 miles
\* per degree; the two factors are taken out of the sum.  With fewer than
\* two positions the loop body never runs and the result is 0.
calculateRingArea(coords) ==
    IF Len(coords) < 2 THEN 0
    ELSE LET avgLat == SumLat(coords, 1) \div Len(coords)
         IN  MulDiv(MulDiv(Abs(Shoelace(coords, 1)), 69 * 69, 200),
                    Cos(avgLat), 10000)

RECURSIVE SumRingAreas(_, _)
SumRingAreas(coordinates, p) ==
    IF p > Len(coordinates) THEN 0
    ELSE calculateRingArea(coordinates[p][1])
             + SumRingAreas(coordinates, p + 1)

calculatePolygonArea(polygon) ==
    LET geomType == polygon.geometry.type
    IN  IF geomType = "Polygon"
        THEN calculateRingArea(polygon.geometry.coordinates[1])
        ELSE IF geomType = "MultiPolygon"
        THEN SumRingAreas(polygon.geometry.coordinates, 1)
        ELSE 0

-----------------------------------------------------------------------------
(* analyzeZipCode: the stats object *)

\* (count / n * 1000).toFixed(1) for whole numbers count >= 0 and n > 0.
ToFixed1PerThousand(count, n) ==
    LET tenths == (20000 * count + n) \div (2 * n)
    IN  ToString(tenths \div 10) \o "." \o ToString(tenths % 10)

\* list.filter(p => pointInPolygon(p.lat, p.lon, zipCodeFeature))
InZip(list, zipCodeFeature) ==
    LET inside(p) == pointInPolygon(p.lat, p.lon, zipCodeFeature)
    IN  SelectSeq(list, inside)

\* count / areaSqMiles for an area > 0, to a whole number per square mile.
PerSqMile(count, areaSqMiles) == MulDiv(count * 1000, 1000, areaSqMiles)

\* The advisory text, boxed so that it can be told from null.
RuralNote ==
    [text |-> "Low population density area. Fire departments may use tanker trucks or draft water from natural sources."]

\* The classification with <= for < in both threshold tests.
DensityFieldsInclusive(addressCount, hydrantCount, areaSqMiles) ==
    LET addressDensity == PerSqMile(addressCount, areaSqMiles)
    IN  [addressDensity          |-> addressDensity,
         hydrantDensityPerSqMile |-> PerSqMile(hydrantCount, areaSqMiles),
         isRural   |-> addressDensity <= 100,
         areaType  |-> IF addressDensity <= 100 THEN "Rural"
                       ELSE IF addressDensity <= 1000 THEN "Suburban"
                       ELSE "Urban",
         ruralNote |-> IF addressDensity <= 100 THEN RuralNote ELSE Null]

\* The fields the `areaSqMiles > 0` branch assigns.
DensityFields(addressCount, hydrantCount, areaSqMiles) ==
    LET addressDensity == PerSqMile(addressCount, areaSqMiles)
    IN  [addressDensity          |-> addressDensity,
         hydrantDensityPerSqMile |-> PerSqMile(hydrantCount, areaSqMiles),
         isRural   |-> addressDensity < 100,
         areaType  |-> IF addressDensity < 100 THEN "Rural"
                       ELSE IF addressDensity < 1000 THEN "Suburban"
                       ELSE "Urban",
         ruralNote |-> IF addressDensity < 100 THEN RuralNote ELSE Null]

\* The smallest and the largest nearestHydrantDist of the records, from the
\* starting values Infinity and 0.
MinDistance(records) ==
    IF Len(records) = 0 THEN Infinity
    ELSE CHOOSE d \in {records[i].nearestHydrantDist : i \in 1..Len(records)} :
             \A i \in 1..Len(records) : d <= records[i].nearestHydrantDist

MaxDistance(records) ==
    IF Len(records) = 0 THEN 0
    ELSE CHOOSE d \in {records[i].nearestHydrantDist : i \in 1..Len(records)} :
             \A i \in 1..Len(records) : d >= records[i].nearestHydrantDist

\* The stats object without the `addressCount > 0` test.
StatsUnguarded(zipCodeFeature, hList, sList, records) ==
    LET areaSqMiles  == calculatePolygonArea(zipCodeFeature)
        hydrantCount == Len(InZip(hList, zipCodeFeature))
        inZip        == InZip(records, zipCodeFeature)
        addressCount == Len(inZip)
        within500    == CountFlag(inZip, "within500ft")
        within1000   == CountFlag(inZip, "within1000ft")
        withinMile   == CountFlag(inZip, "withinStationMile")
    IN  Spread(
         [hydrantCount               |-> hydrantCount,
          stationCount               |-> Len(InZip(sList, zipCodeFeature)),
          addressCount               |-> addressCount,
          addressesWithin500ft       |-> within500,
          addressesWithin1000ft      |-> within1000,
          addressesUnderserved       |-> CountFlag(inZip, "underserved"),
          addressesWithinStationMile |-> withinMile,
          avgDistanceToHydrant       |->
              Divide(SumField(inZip, "nearestHydrantDist", 1), addressCount),
          avgDistanceToStation       |->
              Divide(SumField(inZip, "nearestStationDist", 1), addressCount),
          minDistance                |-> MinDistance(inZip),
          maxDistance                |-> MaxDistance(inZip),
          areaSqMiles                |-> areaSqMiles,
          addressDensity             |-> 0,
          hydrantDensityPerSqMile    |-> 0,
          isRural                    |-> FALSE,
          ruralNote                  |-> Null,
          coveragePercent500         |-> ToFixed1(within500, addressCount),
          coveragePercent1000        |-> ToFixed1(within1000, addressCount),
          stationCoveragePercent     |-> ToFixed1(withinMile, addressCount),
          hydrantDensity             |->
              IF addressCount = 0 THEN "NaN"
              ELSE ToFixed1PerThousand(hydrantCount, addressCount)],
         IF areaSqMiles > 0
         THEN DensityFields(addressCount, hydrantCount, areaSqMiles)
         ELSE <<>>)

\* The stats object analyzeZipCode posts.  areaType is assigned only in the
\* `areaSqMiles > 0` branch and is otherwise not a field of the object.
Stats(zipCodeFeature, hList, sList, records) ==
    LET areaSqMiles  == calculatePolygonArea(zipCodeFeature)
        hydrantCount == Len(InZip(hList, zipCodeFeature))
        inZip        == InZip(records, zipCodeFeature)
        addressCount == Len(inZip)
        within500    == CountFlag(inZip, "within500ft")
        within1000   == CountFlag(inZip, "within1000ft")
        withinMile   == CountFlag(inZip, "withinStationMile")
    IN  Spread(
         [hydrantCount               |-> hydrantCount,
          stationCount               |-> Len(InZip(sList, zipCodeFeature)),
          addressCount               |-> addressCount,
          addressesWithin500ft       |-> within500,
          addressesWithin1000ft      |-> within1000,
          addressesUnderserved       |-> CountFlag(inZip, "underserved"),
          addressesWithinStationMile |-> withinMile,
          avgDistanceToHydrant       |->
              IF addressCount > 0
              THEN Divide(SumField(inZip, "nearestHydrantDist", 1),
                          addressCount)
              ELSE 0,
          avgDistanceToStation       |->
              IF addressCount > 0
              THEN Divide(SumField(inZip, "nearestStationDist", 1),
                          addressCount)
              ELSE 0,
          minDistance                |-> MinDistance(inZip),
          maxDistance                |-> MaxDistance(inZip),
          areaSqMiles                |-> areaSqMiles,
          addressDensity             |-> 0,
          hydrantDensityPerSqMile    |-> 0,
          isRural                    |-> FALSE,
          ruralNote                  |-> Null,
          coveragePercent500         |->
              IF addressCount > 0 THEN ToFixed1(within500, addressCount)
              ELSE "0",
          coveragePercent1000        |->
              IF addressCount > 0 THEN ToFixed1(within1000, addressCount)
              ELSE "0",
          stationCoveragePercent     |->
              IF addressCount > 0 THEN ToFixed1(withinMile, addressCount)
              ELSE "0",
          hydrantDensity             |->
              IF addressCount > 0
              THEN ToFixed1PerThousand(hydrantCount, addressCount)
              ELSE "0"],
         IF areaSqMiles > 0
         THEN DensityFields(addressCount, hydrantCount, areaSqMiles)
         ELSE <<>>)

-----------------------------------------------------------------------------
(* Inputs *)

\* Longest hydrant, station and address lists a message carries; most
\* inserts into sg.
MaxHydrants == 1
MaxStations == 1
MaxAddresses == 2
MaxPoints == 3

\* A coordinate near Sacramento (38.58, -121.49), in ticks.
At(dLat, dLon) == [lat |-> 385800 + dLat, lon |-> -1214900 + dLon]

Named(p, field, name) == Spread(p, [f \in {field} |-> name])

\* Hydrants 500 ft and 1000 ft from the first address.
Hydrants == {At(10, 12), At(20, 24)}

\* A station one mile (5280 ft) from the first address and one farther out.
Stations == {Named(At(6, 185), "properties", [name |-> "Station 1"]),
             Named(At(200, 0), "properties", [name |-> "Station 2"])}

\* The second address is between 500 and 1000 ft from the first hydrant and
\* more than 1000 ft from the second.
Addresses == {Named(At(0, 0), "properties", [address |-> "100 A St"]),
              Named(At(-5, 0), "properties", [address |-> "200 B St"])}

\* Points and queries for sg: neighbours on both sides of a query, a closer
\* point two cells away, two payloads at one coordinate, a point in another
\* row, and points more than MaxRadius cells away.
GridPoints ==
    {Spread(At(0, -50), [data |-> Null]),
     Spread(At(0, 100), [data |-> Null]),
     Spread(At(0, 200), [data |-> Null]),
     Spread(At(0, 30), [data |-> Null]),
     Spread(At(0, 50), [data |-> Null]),
     Spread(At(0, 30), [data |-> [name |-> "payload"]]),
     Spread(At(-60, 40), [data |-> Null]),
     Spread(At(0, 1050), [data |-> Null]),
     Spread(At(0, 2300), [data |-> Null])}

Queries == {At(0, 40), At(0, 90)}

\* The position dLon, dLat ticks from the base coordinate of At.
Pos(dLon, dLat) == <<-1214900 + dLon, 385800 + dLat>>

\* The closed ring around the rectangle from (west, south) to (east, north).
Rect(west, south, east, north) ==
    <<Pos(west, south), Pos(east, south), Pos(east, north),
      Pos(west, north), Pos(west, south)>>

Feature(type, coordinates) ==
    [type |-> "Feature",
     geometry |-> [type |-> type, coordinates |-> coordinates]]

\* The zones put to analyzeZipCode: a wide two-part zone around both
\* addresses, both hydrants and the first station; a zone of 0.01 sq mi and
\* one of 0.00015 sq mi around the first address only; a geometry that is
\* no polygon.
ZipCodeFeatures ==
    {Feature("MultiPolygon",
             <<<<Rect(-50, -50, 50, 50)>>, <<Rect(180, 0, 190, 10)>>>>),
     Feature("Polygon", <<Rect(-2, -4, 2, 63)>>),
     Feature("Polygon", <<Rect(-1, -1, 1, 1)>>),
     Feature("LineString", Rect(-50, -50, 50, 50))}

\* All lists of at most n elements of S.
SeqsUpTo(S, n) == UNION {[1..k -> S] : k \in 0..n}

\* Most positions of a ring put to the polygon functions on their own.
MaxVertices == 4

\* The corners of a square of 0.001 degree.
Corners == {Pos(0, 0), Pos(10, 0), Pos(10, 10), Pos(0, 10)}

\* Every ring over the corners, closed or not, as a Polygon, as the first
\* part of a MultiPolygon beside a square further east, and as a geometry
\* that is no polygon.
Shapes ==
    UNION {{Feature("Polygon", <<ring>>),
            Feature("MultiPolygon", <<<<ring>>, <<Rect(20, 0, 30, 10)>>>>),
            Feature("LineString", ring)} :
           ring \in SeqsUpTo(Corners, MaxVertices)}

\* Most requests that arrive at the worker in one run of the queue.
MaxRequests == 3

\* The requests posted to the queue: one of each type the worker knows, an
\* empty hydrant list, an address list that starts 0.3 degrees north of the
\* hydrants, beyond their twenty search rings, and a type the worker does
\* not know.
Requests ==
    {[type |-> "buildHydrantIndex", data |-> [hydrants |-> <<At(10, 12)>>]],
     [type |-> "buildHydrantIndex", data |-> [hydrants |-> <<>>]],
     [type |-> "setStations",
      data |-> [stations |->
                   <<Named(At(6, 185), "properties", [name |-> "Station 1"])>>]],
     [type |-> "precomputeAddressDistances",
      data |-> [addresses |->
                   <<Named(At(0, 0), "properties", [address |-> "100 A St"])>>]],
     [type |-> "precomputeAddressDistances",
      data |-> [addresses |->
                   <<Named(At(3005, 0), "properties", [address |-> "1 Far Rd"]),
                     Named(At(0, 0), "properties", [address |-> "100 A St"])>>]],
     [type |-> "analyzeZipCode",
      data |-> [zipCodeFeature |->
                   Feature("Polygon", <<Rect(-2, -4, 2, 63)>>)]],
     [type |-> "ping", data |-> Null]}

\* Most loads of a dataset by the caller and most requestZipAnalysis calls
\* in one run of the hook.
MaxLoads == 1
MaxZipCalls == 2

\* The lists the caller loads.
Loadable ==
    [hydrants  |-> {<<At(10, 12)>>, <<>>},
     stations  |-> {<<Named(At(6, 185), "properties", [name |-> "Station 1"])>>},
     addresses |-> {<<Named(At(0, 0), "properties", [address |-> "100 A St"])>>}]

\* The zones the caller asks for.
Zones ==
    {Feature("Polygon", <<Rect(-2, -4, 2, 63)>>),
     Feature("Polygon", <<Rect(-1, -1, 1, 1)>>)}

\* Most loads of a dataset in one run of the hook in which the caller asks
\* for no zone.
MaxDataLoads == 3

\* Most requests that arrive in one run of the queue with long passes.
MaxBulkRequests == 2

\* A list of n addresses along a road 0.3 degrees north of the inputs'
\* hydrants and stations, beyond the twenty search rings of both grids.
BulkAddresses(n) ==
    [i \in 1..n |->
        Named(At(3000 + 5 * (i % 2), 0), "properties", [address |-> "100 A St"])]

\* Requests for passes over one chunk of 5000 records, one record more and
\* two chunks, and the inputs' requests of every type: a pass below one
\* chunk among them.
BulkRequests ==
    {[type |-> "precomputeAddressDistances",
      data |-> [addresses |-> BulkAddresses(n)]] :
        n \in {5000, 5001, 10000}}
    \cup {m \in Requests :
             m.type \in {"buildHydrantIndex", "setStations",
                         "precomputeAddressDistances", "analyzeZipCode"}
             /\ m.data # [hydrants |-> <<>>]}

\* Query points: in the south-east half of the square, in its north-west
\* half, in the square further east, and outside both.
Probes == {At(3, 6), At(7, 2), At(5, 25), At(5, 15)}

\* performance.now() - startTime of a handler, in whole milliseconds.
Elapsed == {0, 1}

-----------------------------------------------------------------------------
(* The worker: one action per message type *)

\* A dataset of the caller: a list and the number of the load that set it.
\* Every load makes a new array, so two loads of equal lists differ.
Dataset(list, load) == [list |-> list, load |-> load]

\* useWorker before its first render: the useState and useRef initial values
\* (lines 4-11) and the caller's empty lists.
InitHook ==
    /\ hookState = [workerReady |-> FALSE, hydrantIndexReady |-> FALSE,
                    stationsIndexReady |-> FALSE,
                    addressDistancesReady |-> FALSE, globalSummary |-> Null]
    /\ rendered = Null
    /\ datasets = [hydrants |-> Dataset(<<>>, 0), stations |-> Dataset(<<>>, 0),
                   addresses |-> Dataset(<<>>, 0)]
    /\ workerRef = Null
    /\ pendingCallbackRef = Null
    /\ history = <<>>

InitWorker ==
    /\ hydrantGrid = NewSpatialGrid(HydrantCellSize)
    /\ stationGrid = NewSpatialGrid(StationCellSize)
    /\ addressesWithDistances = <<>>
    /\ hydrantsList = <<>>
    /\ stationsList = <<>>
    /\ request = Null
    /\ posted = <<>>
    /\ inbox = <<>>
    /\ outbox = <<>>
    /\ arrived = <<>>
    /\ InitHook

Init ==
    /\ sg = NewSpatialGrid(HydrantCellSize)
    /\ nearest = Null
    /\ feature = Null
    /\ answer = Null
    /\ InitWorker

\* buildHydrantIndex without its hydrantGrid.clear().
buildHydrantIndexNoClear(hydrants) ==
    /\ hydrantGrid' = InsertAll(hydrantGrid, hydrants, 1, FALSE)
    /\ hydrantsList' = hydrants
    /\ \E elapsed \in Elapsed :
          posted' = <<[type |-> "hydrantIndexReady",
                       data |-> [count |-> Len(hydrants),
                                 elapsed |-> elapsed]]>>
    /\ UNCHANGED <<stationGrid, stationsList, addressesWithDistances>>

\* `h.lat` throws a TypeError on a null entry of the list.
Throws(list) == \E i \in 1..Len(list) : list[i] = Null

\* The entries a `for (const h of list)` loop gets through: all of them, or
\* those before the first null entry.
BeforeThrow(list) ==
    IF Throws(list)
    THEN SubSeq(list, 1,
                (CHOOSE i \in 1..Len(list) :
                    /\ list[i] = Null
                    /\ \A j \in 1..(i - 1) : list[j] # Null) - 1)
    ELSE list

\* The handler ends at a throw with nothing posted; otherwise it posts its
\* completion.
buildHydrantIndex(hydrants) ==
    /\ hydrantGrid' =
           InsertAll(Clear(hydrantGrid), BeforeThrow(hydrants), 1, FALSE)
    /\ hydrantsList' = hydrants
    /\ IF Throws(hydrants) THEN posted' = <<>>
       ELSE \E elapsed \in Elapsed :
               posted' = <<[type |-> "hydrantIndexReady",
                            data |-> [count |-> Len(hydrants),
                                      elapsed |-> elapsed]]>>
    /\ UNCHANGED <<stationGrid, stationsList, addressesWithDistances>>

\* buildHydrantIndex(undefined): the grid is cleared and the list set, then
\* `for (const h of undefined)` throws a TypeError.
buildHydrantIndexOfUndefined ==
    /\ hydrantGrid' = Clear(hydrantGrid)
    /\ hydrantsList' = Undefined
    /\ posted' = <<>>
    /\ UNCHANGED <<stationGrid, stationsList, addressesWithDistances>>

\* setStations that clears and fills the hydrant grid.
setStationsIntoHydrantGrid(stations) ==
    /\ hydrantGrid' = InsertAll(Clear(hydrantGrid), stations, 1, TRUE)
    /\ stationsList' = stations
    /\ posted' = <<[type |-> "stationsIndexReady",
                    data |-> [count |-> Len(stations)]]>>
    /\ UNCHANGED <<stationGrid, hydrantsList, addressesWithDistances>>

setStations(stations) ==
    /\ stationGrid' =
           InsertAll(Clear(stationGrid), BeforeThrow(stations), 1, TRUE)
    /\ stationsList' = stations
    /\ posted' = IF Throws(stations) THEN <<>>
                 ELSE <<[type |-> "stationsIndexReady",
                         data |-> [count |-> Len(stations)]]>>
    /\ UNCHANGED <<hydrantGrid, hydrantsList, addressesWithDistances>>

\* setStations(undefined)
setStationsOfUndefined ==
    /\ stationGrid' = Clear(stationGrid)
    /\ stationsList' = Undefined
    /\ posted' = <<>>
    /\ UNCHANGED <<hydrantGrid, hydrantsList, addressesWithDistances>>

\* The closing postMessage of a pass (lines 273-282), after its progress
\* messages: the count, the elapsed time and the summary.
PostDistancesReady(progress, count, summary) ==
    \E elapsed \in Elapsed :
        posted' = progress \o
            <<[type |-> "addressDistancesReady",
               data |-> [count |-> count, elapsed |-> elapsed,
                         summary |-> summary]]>>

\* precomputeAddressDistances without `addressesWithDistances = []`.
precomputeAppending(addresses) ==
    /\ addressesWithDistances' =
           addressesWithDistances \o
           [i \in 1..Len(addresses) |->
               DistanceRecord(addresses[i], hydrantGrid, stationGrid,
                              stationsList)]
    /\ \E elapsed \in Elapsed :
          posted' = ProgressMessages(Len(addresses)) \o
              <<[type |-> "addressDistancesReady",
                 data |-> [count |-> Len(addressesWithDistances'),
                           elapsed |-> elapsed,
                           summary |-> Summary(addressesWithDistances',
                                               stationsList)]]>>
    /\ UNCHANGED <<hydrantGrid, stationGrid, hydrantsList, stationsList>>

\* The table is emptied, then the loop pushes one record per address, in
\* order; the grids and lists do not change while it runs.
precomputeAddressDistances(addresses) ==
    /\ addressesWithDistances' =
           <<>> \o
           [i \in 1..Len(addresses) |->
               DistanceRecord(addresses[i], hydrantGrid, stationGrid,
                              stationsList)]
    /\ PostDistancesReady(ProgressMessages(Len(addresses)),
                          Len(addressesWithDistances'),
                          Summary(addressesWithDistances', stationsList))
    /\ UNCHANGED <<hydrantGrid, stationGrid, hydrantsList, stationsList>>

\* analyzeZipCode that keeps its statistics between requests: a request that
\* follows another analysis is answered with the statistics posted last.
analyzeZipCodeKeeping(zipCodeFeature) ==
    /\ \E elapsed \in Elapsed :
          posted' = <<[type |-> "zipCodeAnalysisReady",
                       data |-> [stats |->
                                     IF request # Null
                                        /\ request.type = "analyzeZipCode"
                                     THEN posted[1].data.stats
                                     ELSE Stats(zipCodeFeature, hydrantsList,
                                                stationsList,
                                                addressesWithDistances),
                                 elapsed |-> elapsed]]>>
    /\ UNCHANGED <<hydrantGrid, stationGrid, addressesWithDistances,
                   hydrantsList, stationsList>>

analyzeZipCode(zipCodeFeature) ==
    /\ \E elapsed \in Elapsed :
          posted' = <<[type |-> "zipCodeAnalysisReady",
                       data |-> [stats |-> Stats(zipCodeFeature, hydrantsList,
                                                 stationsList,
                                                 addressesWithDistances),
                                 elapsed |-> elapsed]]>>
    /\ UNCHANGED <<hydrantGrid, stationGrid, addressesWithDistances,
                   hydrantsList, stationsList>>

\* self.onmessage, one action per case of the switch
OnBuildHydrantIndex ==
    \E hydrants \in SeqsUpTo(Hydrants, MaxHydrants) :
        /\ request' = [type |-> "buildHydrantIndex",
                       data |-> [hydrants |-> hydrants]]
        /\ buildHydrantIndex(hydrants)

OnSetStations ==
    \E stations \in SeqsUpTo(Stations, MaxStations) :
        /\ request' = [type |-> "setStations",
                       data |-> [stations |-> stations]]
        /\ setStations(stations)

OnPrecomputeAddressDistances ==
    \E addresses \in SeqsUpTo(Addresses, MaxAddresses) :
        /\ request' = [type |-> "precomputeAddressDistances",
                       data |-> [addresses |-> addresses]]
        /\ precomputeAddressDistances(addresses)

OnAnalyzeZipCode ==
    \E zipCodeFeature \in ZipCodeFeatures :
        /\ request' = [type |-> "analyzeZipCode",
                       data |-> [zipCodeFeature |-> zipCodeFeature]]
        /\ analyzeZipCode(zipCodeFeature)

Next ==
    \/ OnBuildHydrantIndex /\ UNCHANGED <<gridVars, polyVars, queueVars, hookVars>>
    \/ OnSetStations /\ UNCHANGED <<gridVars, polyVars, queueVars, hookVars>>
    \/ OnPrecomputeAddressDistances /\ UNCHANGED <<gridVars, polyVars, queueVars, hookVars>>
    \/ OnAnalyzeZipCode /\ UNCHANGED <<gridVars, polyVars, queueVars, hookVars>>

Spec == Init /\ [][Next]_vars

-----------------------------------------------------------------------------
(* The worker behind its message queue.  Requests arrive at any time; the  *)
(* event loop hands the oldest one to self.onmessage, which runs to its    *)
(* end before the next is taken.                                           *)

\* self.onmessage(e) with e.data = message: the switch on the type.  A type
\* without a case posts nothing and changes nothing; data.hydrants and
\* data.stations are undefined when data has no such property.
onmessage(message) ==
    /\ request' = message
    /\ IF message.type = "buildHydrantIndex"
       THEN IF "hydrants" \in DOMAIN message.data
            THEN buildHydrantIndex(message.data.hydrants)
            ELSE buildHydrantIndexOfUndefined
       ELSE IF message.type = "setStations"
       THEN IF "stations" \in DOMAIN message.data
            THEN setStations(message.data.stations)
            ELSE setStationsOfUndefined
       ELSE IF message.type = "precomputeAddressDistances"
       THEN precomputeAddressDistances(message.data.addresses)
       ELSE IF message.type = "analyzeZipCode"
       THEN analyzeZipCode(message.data.zipCodeFeature)
       ELSE /\ posted' = <<>>
            /\ UNCHANGED <<hydrantGrid, stationGrid, addressesWithDistances,
                           hydrantsList, stationsList>>

\* worker.postMessage(message) by a client
Arrive ==
    /\ Len(arrived) < MaxRequests
    /\ \E message \in Requests :
          /\ inbox' = Append(inbox, message)
          /\ arrived' = Append(arrived, message)
    /\ UNCHANGED <<outbox, hydrantGrid, stationGrid, addressesWithDistances,
                   hydrantsList, stationsList, request, posted>>

\* An event loop that hands over the newest request.
WorkerStepNewestFirst ==
    /\ inbox # <<>>
    /\ onmessage(inbox[Len(inbox)])
    /\ inbox' = SubSeq(inbox, 1, Len(inbox) - 1)
    /\ outbox' = outbox \o posted'
    /\ UNCHANGED arrived

\* One turn of the worker's event loop.
WorkerStep ==
    /\ inbox # <<>>
    /\ onmessage(Head(inbox))
    /\ inbox' = Tail(inbox)
    /\ outbox' = outbox \o posted'
    /\ UNCHANGED arrived

\* Requests for the two indexes, well formed and not: the list under a
\* wrong name, and a null entry behind a good one.
ShapeRequests ==
    {[type |-> "buildHydrantIndex", data |-> [hydrants |-> <<At(10, 12)>>]],
     [type |-> "buildHydrantIndex", data |-> [hydrant |-> <<At(10, 12)>>]],
     [type |-> "buildHydrantIndex",
      data |-> [hydrants |-> <<At(20, 24), Null>>]],
     [type |-> "setStations",
      data |-> [stations |->
                   <<Named(At(6, 185), "properties", [name |-> "Station 1"])>>]],
     [type |-> "setStations",
      data |-> [station |->
                   <<Named(At(6, 185), "properties", [name |-> "Station 1"])>>]],
     [type |-> "setStations",
      data |-> [stations |->
                   <<Named(At(200, 0), "properties", [name |-> "Station 2"]),
                     Null>>]]}

\* worker.postMessage(message) by a client that may send malformed lists
ArriveShape ==
    /\ Len(arrived) < MaxRequests
    /\ \E message \in ShapeRequests :
          /\ inbox' = Append(inbox, message)
          /\ arrived' = Append(arrived, message)
    /\ UNCHANGED <<outbox, hydrantGrid, stationGrid, addressesWithDistances,
                   hydrantsList, stationsList, request, posted>>

NextShape ==
    \/ ArriveShape /\ UNCHANGED <<gridVars, polyVars, hookVars>>
    \/ WorkerStep /\ UNCHANGED <<gridVars, polyVars, hookVars>>

SpecShape == Init /\ [][NextShape]_vars

\* worker.postMessage(message) by a client with long address lists
ArriveBulk ==
    /\ Len(arrived) < MaxBulkRequests
    /\ \E message \in BulkRequests :
          /\ inbox' = Append(inbox, message)
          /\ arrived' = Append(arrived, message)
    /\ UNCHANGED <<outbox, hydrantGrid, stationGrid, addressesWithDistances,
                   hydrantsList, stationsList, request, posted>>

NextBulk ==
    \/ ArriveBulk /\ UNCHANGED <<gridVars, polyVars, hookVars>>
    \/ WorkerStep /\ UNCHANGED <<gridVars, polyVars, hookVars>>

SpecBulk == Init /\ [][NextBulk]_vars

NextQueue ==
    \/ Arrive /\ UNCHANGED <<gridVars, polyVars, hookVars>>
    \/ WorkerStep /\ UNCHANGED <<gridVars, polyVars, hookVars>>

SpecQueue == Init /\ [][NextQueue]_vars

-----------------------------------------------------------------------------
(* The caller: the useWorker hook in front of the worker.  A render takes  *)
(* the values set so far; the effects of that render and the function it   *)
(* returns see those values until the next render.                         *)

\* What a render of useWorker(hydrants, addresses, stations) sees of the
\* state and of its arguments: the dependencies of its effects.
Snapshot ==
    [workerReady        |-> hookState.workerReady,
     hydrantIndexReady  |-> hookState.hydrantIndexReady,
     stationsIndexReady |-> hookState.stationsIndexReady,
     hydrants           |-> datasets.hydrants,
     stations           |-> datasets.stations,
     addresses          |-> datasets.addresses]

\* The first render and its effects.  The first effect makes the worker and
\* calls setWorkerReady(true), or catches and calls setWorkerReady(false);
\* the other three see workerReady as rendered, false, and return.
Mount ==
    /\ rendered = Null
    /\ rendered' = Snapshot
    /\ \E created \in BOOLEAN :
          /\ workerRef' = IF created THEN [worker |-> "coverage.worker.js"]
                          ELSE Null
          /\ hookState' = [hookState EXCEPT !.workerReady = created]
    /\ UNCHANGED <<datasets, pendingCallbackRef, history, queueVars, workerVars>>

\* The effect on [workerReady, hydrants] runs and passes its guard.
SendsHydrants(prev, cur) ==
    /\ prev.workerReady # cur.workerReady \/ prev.hydrants # cur.hydrants
    /\ ~(~cur.workerReady \/ workerRef = Null \/ Len(cur.hydrants.list) = 0)

\* The effect on [workerReady, stations] runs and passes its guard.
SendsStations(prev, cur) ==
    /\ prev.workerReady # cur.workerReady \/ prev.stations # cur.stations
    /\ ~(~cur.workerReady \/ workerRef = Null)

\* The effect on the addresses without !hydrantIndexReady in its guard.
SendsAddressesUnindexed(prev, cur) ==
    /\ \/ prev.workerReady # cur.workerReady
       \/ prev.hydrantIndexReady # cur.hydrantIndexReady
       \/ prev.stationsIndexReady # cur.stationsIndexReady
       \/ prev.addresses # cur.addresses
    /\ ~(~cur.workerReady \/ workerRef = Null \/ Len(cur.addresses.list) = 0)

\* The effect on [workerReady, hydrantIndexReady, stationsIndexReady,
\* addresses] runs and passes its guard.
SendsAddresses(prev, cur) ==
    /\ \/ prev.workerReady # cur.workerReady
       \/ prev.hydrantIndexReady # cur.hydrantIndexReady
       \/ prev.stationsIndexReady # cur.stationsIndexReady
       \/ prev.addresses # cur.addresses
    /\ ~(~cur.workerReady \/ workerRef = Null \/ ~cur.hydrantIndexReady
            \/ Len(cur.addresses.list) = 0)

\* The messages the effects of a render post, in the order of the effects.
EffectMessages(prev, cur) ==
    (IF SendsHydrants(prev, cur)
     THEN <<[type |-> "buildHydrantIndex",
             data |-> [hydrants |-> cur.hydrants.list]]>>
     ELSE <<>>)
    \o (IF SendsStations(prev, cur)
        THEN <<[type |-> "setStations",
                data |-> [stations |-> cur.stations.list]]>>
        ELSE <<>>)
    \o (IF SendsAddresses(prev, cur)
        THEN <<[type |-> "precomputeAddressDistances",
                data |-> [addresses |-> cur.addresses.list]]>>
        ELSE <<>>)

\* A later render, after a set state or a new argument, and its effects: each
\* effect of which a dependency changed runs, and one that passes its guard
\* sets its flag to false and posts its message.
Render ==
    /\ rendered # Null
    /\ Snapshot # rendered
    /\ rendered' = Snapshot
    /\ hookState' =
          [hookState EXCEPT
              !.hydrantIndexReady =
                  IF SendsHydrants(rendered, Snapshot) THEN FALSE ELSE @,
              !.stationsIndexReady =
                  IF SendsStations(rendered, Snapshot) THEN FALSE ELSE @,
              !.addressDistancesReady =
                  IF SendsAddresses(rendered, Snapshot) THEN FALSE ELSE @]
    /\ inbox' = inbox \o EffectMessages(rendered, Snapshot)
    /\ arrived' = arrived \o EffectMessages(rendered, Snapshot)
    /\ UNCHANGED <<datasets, workerRef, pendingCallbackRef, history, outbox,
                   workerVars>>

\* The number of loads so far.
Loads == datasets.hydrants.load + datasets.stations.load
             + datasets.addresses.load

\* The caller loads a dataset: setHydrants, setStations or setAddresses with
\* a new array.
Load ==
    /\ Loads < MaxLoads
    /\ \E name \in DOMAIN Loadable :
          \E list \in Loadable[name] :
              datasets' = [datasets EXCEPT
                              ![name] = Dataset(list, @.load + 1)]
    /\ UNCHANGED <<hookState, rendered, workerRef, pendingCallbackRef, history,
                   queueVars, workerVars>>

\* requestZipAnalysis that leaves a pending callback in place.
requestZipAnalysisKeepingFirst(geoJsonFeature, callback) ==
    IF ~rendered.workerReady \/ workerRef = Null
    THEN /\ history' = Append(history,
                               [event |-> "call", callback |-> callback,
                                feature |-> geoJsonFeature, posted |-> FALSE])
         /\ UNCHANGED <<pendingCallbackRef, inbox, arrived>>
    ELSE /\ pendingCallbackRef' =
                IF pendingCallbackRef = Null THEN callback
                ELSE pendingCallbackRef
         /\ inbox' = Append(inbox, [type |-> "analyzeZipCode",
                                    data |-> [zipCodeFeature |-> geoJsonFeature]])
         /\ arrived' = Append(arrived, [type |-> "analyzeZipCode",
                                    data |-> [zipCodeFeature |-> geoJsonFeature]])
         /\ history' = Append(history,
                               [event |-> "call", callback |-> callback,
                                feature |-> geoJsonFeature, posted |-> TRUE])

\* requestZipAnalysis(geoJsonFeature, callback), the function of the last
\* render.  A call that is not posted calls back at once with
\* {error: 'Worker not ready'}.
requestZipAnalysis(geoJsonFeature, callback) ==
    IF ~rendered.workerReady \/ workerRef = Null
    THEN /\ history' = Append(history,
                               [event |-> "call", callback |-> callback,
                                feature |-> geoJsonFeature, posted |-> FALSE])
         /\ UNCHANGED <<pendingCallbackRef, inbox, arrived>>
    ELSE /\ pendingCallbackRef' = callback
         /\ inbox' = Append(inbox, [type |-> "analyzeZipCode",
                                    data |-> [zipCodeFeature |-> geoJsonFeature]])
         /\ arrived' = Append(arrived, [type |-> "analyzeZipCode",
                                    data |-> [zipCodeFeature |-> geoJsonFeature]])
         /\ history' = Append(history,
                               [event |-> "call", callback |-> callback,
                                feature |-> geoJsonFeature, posted |-> TRUE])

IsCall(event) == event.event = "call"

\* The caller asks for a zone with a callback of its own.
CallRequestZipAnalysis ==
    /\ rendered # Null
    /\ Len(SelectSeq(history, IsCall)) < MaxZipCalls
    /\ \E zone \in Zones :
          requestZipAnalysis(zone,
                             [id |-> Len(SelectSeq(history, IsCall)) + 1])
    /\ UNCHANGED <<hookState, rendered, datasets, workerRef, outbox,
                   workerVars>>

\* workerRef.current.onmessage(e): the oldest message the worker posted.  A
\* type without a case, as 'progress', sets nothing.
HookOnMessage ==
    /\ workerRef # Null
    /\ outbox # <<>>
    /\ outbox' = Tail(outbox)
    /\ LET type == Head(outbox).type
           data == Head(outbox).data
       IN  /\ hookState' =
                 IF type = "hydrantIndexReady"
                 THEN [hookState EXCEPT !.hydrantIndexReady = TRUE]
                 ELSE IF type = "stationsIndexReady"
                 THEN [hookState EXCEPT !.stationsIndexReady = TRUE]
                 ELSE IF type = "addressDistancesReady"
                 THEN [hookState EXCEPT !.addressDistancesReady = TRUE,
                                        !.globalSummary = data.summary]
                 ELSE hookState
           /\ IF type = "zipCodeAnalysisReady"
              THEN /\ history' = Append(history,
                                        [event |-> "response",
                                         callback |-> pendingCallbackRef,
                                         stats |-> data.stats])
                   /\ pendingCallbackRef' = Null
              ELSE UNCHANGED <<history, pendingCallbackRef>>
    /\ UNCHANGED <<rendered, datasets, workerRef, inbox, arrived, workerVars>>

\* workerRef.current.onerror(e), on an error event of the worker
OnError ==
    /\ workerRef # Null
    /\ hookState' = [hookState EXCEPT !.workerReady = FALSE]
    /\ UNCHANGED <<rendered, datasets, workerRef, pendingCallbackRef, history,
                   queueVars, workerVars>>

\* The worker's turns leave the hook alone.
NextHook ==
    \/ Mount /\ UNCHANGED <<gridVars, polyVars>>
    \/ Render /\ UNCHANGED <<gridVars, polyVars>>
    \/ Load /\ UNCHANGED <<gridVars, polyVars>>
    \/ CallRequestZipAnalysis /\ UNCHANGED <<gridVars, polyVars>>
    \/ HookOnMessage /\ UNCHANGED <<gridVars, polyVars>>
    \/ OnError /\ UNCHANGED <<gridVars, polyVars>>
    \/ WorkerStep /\ UNCHANGED <<gridVars, polyVars, hookVars>>

SpecHook == Init /\ [][NextHook]_vars

\* The lists the caller loads in a run in which it asks for no zone: a
\* second hydrant, 1000 ft from the address, beside the first at 500 ft.
LoadableData == [Loadable EXCEPT !.hydrants = @ \cup {<<At(20, 24)>>}]

\* The caller loads a dataset, in a run in which it asks for no zone.
LoadData ==
    /\ Loads < MaxDataLoads
    /\ \E name \in DOMAIN LoadableData :
          \E list \in LoadableData[name] :
              datasets' = [datasets EXCEPT
                              ![name] = Dataset(list, @.load + 1)]
    /\ UNCHANGED <<hookState, rendered, workerRef, pendingCallbackRef, history,
                   queueVars, workerVars>>

\* The hook and the worker while the caller loads its datasets.
NextData ==
    \/ Mount /\ UNCHANGED <<gridVars, polyVars>>
    \/ Render /\ UNCHANGED <<gridVars, polyVars>>
    \/ LoadData /\ UNCHANGED <<gridVars, polyVars>>
    \/ HookOnMessage /\ UNCHANGED <<gridVars, polyVars>>
    \/ OnError /\ UNCHANGED <<gridVars, polyVars>>
    \/ WorkerStep /\ UNCHANGED <<gridVars, polyVars, hookVars>>

SpecData == Init /\ [][NextData]_vars

-----------------------------------------------------------------------------
(* The polygon functions on their own: any calls on one feature *)

InitPoly ==
    /\ sg = NewSpatialGrid(HydrantCellSize)
    /\ nearest = Null
    /\ feature \in Shapes
    /\ answer = Null
    /\ InitWorker

\* pointInPolygon(q.lat, q.lon, feature)
CallPointInPolygon ==
    /\ \E q \in Probes :
          answer' = [fn |-> "pointInPolygon", lat |-> q.lat, lon |-> q.lon,
                     result |-> pointInPolygon(q.lat, q.lon, feature)]
    /\ UNCHANGED <<feature, gridVars, workerVars, queueVars, hookVars>>

\* calculatePolygonArea(feature)
CallCalculatePolygonArea ==
    /\ answer' = [fn |-> "calculatePolygonArea",
                  result |-> calculatePolygonArea(feature)]
    /\ UNCHANGED <<feature, gridVars, workerVars, queueVars, hookVars>>

NextPoly == CallPointInPolygon \/ CallCalculatePolygonArea

SpecPoly == InitPoly /\ [][NextPoly]_vars

-----------------------------------------------------------------------------
(* One SpatialGrid on its own: any sequence of insert, clear, findNearest *)

InitGrid ==
    /\ sg \in {NewSpatialGrid(HydrantCellSize), NewSpatialGrid(StationCellSize)}
    /\ nearest = Null
    /\ feature = Null
    /\ answer = Null
    /\ InitWorker

\* sg.insert(p.lat, p.lon, p.data).  A result held in `nearest` describes the
\* current contents only, so a change of contents drops it.
SgInsert ==
    /\ Len(sg.allPoints) < MaxPoints
    /\ \E p \in GridPoints : sg' = Insert(sg, p.lat, p.lon, p.data)
    /\ nearest' = Null
    /\ UNCHANGED <<workerVars, polyVars, queueVars, hookVars>>

\* sg.clear()
SgClear ==
    /\ sg' = Clear(sg)
    /\ nearest' = Null
    /\ UNCHANGED <<workerVars, polyVars, queueVars, hookVars>>

\* sg.findNearest(q.lat, q.lon)
SgFindNearest ==
    /\ \E q \in Queries :
          nearest' = [lat |-> q.lat, lon |-> q.lon,
                      result |-> FindNearest(sg, q.lat, q.lon)]
    /\ UNCHANGED <<sg, workerVars, polyVars, queueVars, hookVars>>

NextGrid == SgInsert \/ SgClear \/ SgFindNearest

SpecGrid == InitGrid /\ [][NextGrid]_vars

-----------------------------------------------------------------------------
(* Properties of SpatialGrid, under SpecGrid *)

\* The cell of a coordinate, by the formula of the data model.
CellOf(g, lat, lon) == <<lon \div g.cellSize, lat \div g.cellSize>>

\* The inserted points whose cell is at most r cells from the query's cell
\* in both directions, read from allPoints.
BlockPoints(g, lat, lon, r) ==
    {i \in 1..Len(g.allPoints) :
        LET c == CellOf(g, g.allPoints[i].lat, g.allPoints[i].lon)
            q == CellOf(g, lat, lon)
        IN  Abs(c[1] - q[1]) <= r /\ Abs(c[2] - q[2]) <= r}

DistTo(g, lat, lon, i) ==
    haversineDistance(lat, lon, g.allPoints[i].lat, g.allPoints[i].lon)

\* A call of findNearest has been made on the current contents of sg.
Called == nearest # Null

\* C1: the point findNearest returns is at the least distance over all
\* inserted points, as a scan of allPoints finds it.
C1_AgreesWithBruteForce ==
    (Called /\ nearest.result.point # Null) =>
        \A i \in 1..Len(sg.allPoints) :
            nearest.result.distance <= DistTo(sg, nearest.lat, nearest.lon, i)

\* The smallest radius in 1..MaxRadius whose block holds a point (0: none).
FirstRadius(g, lat, lon) ==
    LET rs == {r \in 1..20 : BlockPoints(g, lat, lon, r) # {}}
    IN  IF rs = {} THEN 0 ELSE CHOOSE r \in rs : \A s \in rs : r <= s

\* C2: findNearest returns a point of least distance among exactly the points
\* of the first non-empty block of radius 1..20 around the query's cell.
C2_NearestInFirstBlock ==
    Called =>
        LET r     == FirstRadius(sg, nearest.lat, nearest.lon)
            block == BlockPoints(sg, nearest.lat, nearest.lon, r)
        IN  r > 0 =>
              /\ \E i \in block : sg.allPoints[i] = nearest.result.point
              /\ nearest.result.distance =
                    haversineDistance(nearest.lat, nearest.lon,
                        nearest.result.point.lat, nearest.result.point.lon)
              /\ \A i \in block :
                    nearest.result.distance
                        <= DistTo(sg, nearest.lat, nearest.lon, i)

\* A call answered from a block of radius 2 or more that holds two points.
C2_Witness ==
    /\ Called
    /\ FirstRadius(sg, nearest.lat, nearest.lon) >= 2
    /\ Cardinality(BlockPoints(sg, nearest.lat, nearest.lon,
                       FirstRadius(sg, nearest.lat, nearest.lon))) >= 2
    /\ nearest.result.point # sg.allPoints[1]

\* C3: findNearest returns {point: null, distance: Infinity} exactly when no
\* inserted point lies in the 41 x 41 block of cells around the query's cell.
C3_SentinelIffNoneInRange ==
    Called =>
        ((nearest.result = [point |-> Null, distance |-> Infinity])
            <=> BlockPoints(sg, nearest.lat, nearest.lon, 20) = {})

\* The sentinel is returned although points are stored, all out of range.
C3_Witness ==
    /\ Called
    /\ Len(sg.allPoints) >= 2
    /\ nearest.result = [point |-> Null, distance |-> Infinity]

\* All orders of 1..n.
Orders(n) == {f \in [1..n -> 1..n] : \A i, j \in 1..n : f[i] = f[j] => i = j}

RECURSIVE InsertInOrder(_, _, _, _)
InsertInOrder(g, points, order, i) ==
    IF i > Len(points) THEN g
    ELSE InsertInOrder(Insert(g, points[order[i]].lat, points[order[i]].lon,
                              points[order[i]].data),
                       points, order, i + 1)

\* The grid that a cleared sg holds after its points are inserted in order.
Reinserted(order) == InsertInOrder(Clear(sg), sg.allPoints, order, 1)

\* A returned point without the identity of the object.
Value(p) == IF p = Null THEN Null
            ELSE [lat |-> p.lat, lon |-> p.lon, data |-> p.data]

TieInOneCell ==
    \E i, j \in 1..Len(sg.allPoints) :
        /\ i # j
        /\ Value(sg.allPoints[i]) # Value(sg.allPoints[j])
        /\ CellOf(sg, sg.allPoints[i].lat, sg.allPoints[i].lon)
              = CellOf(sg, sg.allPoints[j].lat, sg.allPoints[j].lon)
        /\ DistTo(sg, nearest.lat, nearest.lon, i) = nearest.result.distance
        /\ DistTo(sg, nearest.lat, nearest.lon, j) = nearest.result.distance

Places(g, p) ==
    {<<c, k>> \in (DOMAIN g.grid) \X (1..Len(g.allPoints)) :
        k <= Len(g.grid[c]) /\ g.grid[c][k] = p}

RECURSIVE SumSizes(_, _)
SumSizes(g, cells) ==
    IF cells = {} THEN 0
    ELSE LET c == CHOOSE a \in cells : TRUE
         IN  Len(g.grid[c]) + SumSizes(g, cells \ {c})

\* C5: every point of allPoints is in exactly one bucket, the bucket of its
\* cell; buckets hold no other point; bucket sizes add up to allPoints.length.
C5_BucketsMatchAllPoints ==
    /\ \A i \in 1..Len(sg.allPoints) :
          LET p == sg.allPoints[i]
          IN  /\ Cardinality(Places(sg, p)) = 1
              /\ \A pl \in Places(sg, p) : pl[1] = CellOf(sg, p.lat, p.lon)
    /\ \A c \in DOMAIN sg.grid : \A k \in 1..Len(sg.grid[c]) :
          \E i \in 1..Len(sg.allPoints) : sg.allPoints[i] = sg.grid[c][k]
    /\ SumSizes(sg, DOMAIN sg.grid) = Len(sg.allPoints)

\* Two points share a bucket and a third has its own.
C5_Witness ==
    /\ Len(sg.allPoints) >= 3
    /\ Cardinality(DOMAIN sg.grid) = 2

-----------------------------------------------------------------------------
(* Properties of the worker, under Spec *)

\* The coordinates and payloads a grid holds, in insertion order.
Held(g) == [i \in 1..Len(g.allPoints) |-> Value(g.allPoints[i])]

\* The points of every bucket of a grid, as a set of cell-and-value pairs.
Bucketed(g) ==
    {<<c, Value(g.grid[c][k])>> : <<c, k>> \in
        {ck \in (DOMAIN g.grid) \X (1..Len(g.allPoints)) :
            ck[2] <= Len(g.grid[ck[1]])}}

\* What a grid holds when exactly the points of list are in it.
Supplied(list, withData) ==
    [i \in 1..Len(list) |->
        [lat |-> list[i].lat, lon |-> list[i].lon,
         data |-> IF withData THEN list[i] ELSE Null]]

HoldsExactly(g, list, withData) ==
    /\ Held(g) = Supplied(list, withData)
    /\ Bucketed(g) =
          {<<CellOf(g, list[i].lat, list[i].lon), Supplied(list, withData)[i]>> :
              i \in 1..Len(list)}
    /\ SumSizes(g, DOMAIN g.grid) = Len(list)

Handled(type) == request # Null /\ request.type = type

\* C6: the hydrant grid holds exactly the points of the hydrant list supplied
\* last and the station grid those of the station list supplied last, and
\* hydrantsList and stationsList are those lists.
C6_GridsHoldLatestLists ==
    /\ HoldsExactly(hydrantGrid, hydrantsList, FALSE)
    /\ HoldsExactly(stationGrid, stationsList, TRUE)
    /\ Handled("buildHydrantIndex") => hydrantsList = request.data.hydrants
    /\ Handled("setStations") => stationsList = request.data.stations

\* A rebuild has replaced a non-empty hydrant index by another list.
C6_Witness ==
    /\ Handled("buildHydrantIndex")
    /\ Len(hydrantsList) = 1
    /\ Len(addressesWithDistances) > 0
    /\ addressesWithDistances[1].nearestHydrantDist # Infinity
    /\ addressesWithDistances[1].nearestHydrantDist #
          FindNearest(hydrantGrid, addressesWithDistances[1].lat,
                      addressesWithDistances[1].lon).distance

\* C7: buildHydrantIndex leaves the station grid and stationsList unchanged,
\* setStations leaves the hydrant grid and hydrantsList unchanged, and the
\* grids keep their cell sizes.
C7_IndexesIsolated ==
    [][/\ request'.type = "buildHydrantIndex" =>
             UNCHANGED <<stationGrid, stationsList>>
       /\ request'.type = "setStations" =>
             UNCHANGED <<hydrantGrid, hydrantsList>>
       /\ hydrantGrid'.cellSize = HydrantCellSize
       /\ stationGrid'.cellSize = StationCellSize]_vars

\* Both indexes are filled and the station list was the last one supplied.
C7_Witness ==
    /\ Handled("setStations")
    /\ Len(hydrantGrid.allPoints) > 0
    /\ Len(stationGrid.allPoints) > 0

\* C8: every record of the table has within500ft = (dist <= 500),
\* within1000ft = (dist <= 1000), underserved = (dist > 1000) for its hydrant
\* distance and withinStationMile = (stationDist <= 5280), so within500ft
\* implies within1000ft and underserved is the negation of within1000ft.
C8_FlagsMatchDistances ==
    \A i \in 1..Len(addressesWithDistances) :
        LET a == addressesWithDistances[i]
        IN  /\ a.within500ft = (a.nearestHydrantDist <= 500)
            /\ a.within1000ft = (a.nearestHydrantDist <= 1000)
            /\ a.underserved = (a.nearestHydrantDist > 1000)
            /\ a.withinStationMile = (a.nearestStationDist <= 5280)
            /\ a.within500ft => a.within1000ft
            /\ a.underserved = ~a.within1000ft

\* A record exactly 500 ft from its hydrant and exactly a mile from its
\* station, next to one between 500 and 1000 ft.
C8_Witness ==
    /\ Len(addressesWithDistances) = 2
    /\ addressesWithDistances[1].nearestHydrantDist = 500
    /\ addressesWithDistances[1].within500ft
    /\ addressesWithDistances[1].nearestStationDist = 5280
    /\ addressesWithDistances[1].withinStationMile
    /\ addressesWithDistances[2].nearestHydrantDist > 500
    /\ addressesWithDistances[2].within1000ft

\* The message posted last by the last handler.
LastPosted == posted[Len(posted)]

\* C9: a precompute pass handled while the station list is empty gives every
\* record nearestStationDist = Infinity, nearestStationData = null and
\* withinStationMile = false, and a summary with withinStationMile = 0,
\* avgStationDistance = 0 and pctWithinStationMile = '0'.
C9_NoStations ==
    (Handled("precomputeAddressDistances") /\ Len(stationsList) = 0) =>
        /\ \A i \in 1..Len(addressesWithDistances) :
              /\ addressesWithDistances[i].nearestStationDist = Infinity
              /\ addressesWithDistances[i].nearestStationData = Null
              /\ addressesWithDistances[i].withinStationMile = FALSE
        /\ LastPosted.type = "addressDistancesReady"
        /\ LastPosted.data.summary.withinStationMile = 0
        /\ LastPosted.data.summary.avgStationDistance = 0
        /\ LastPosted.data.summary.pctWithinStationMile = "0"

\* A pass over two addresses with hydrants indexed and no station.
C9_Witness ==
    /\ Handled("precomputeAddressDistances")
    /\ Len(stationsList) = 0
    /\ Len(hydrantsList) > 0
    /\ Len(addressesWithDistances) = 2

\* C10: after a precompute pass the table has one record per address of the
\* request, record i carries the fields of address i, the reported count is
\* the number of addresses, and no earlier record remains.
C10_OneRecordPerAddress ==
    Handled("precomputeAddressDistances") =>
        LET addresses == request.data.addresses
        IN  /\ Len(addressesWithDistances) = Len(addresses)
            /\ \A i \in 1..Len(addresses) :
                  \A f \in DOMAIN addresses[i] :
                      addressesWithDistances[i][f] = addresses[i][f]
            /\ LastPosted.type = "addressDistancesReady"
            /\ LastPosted.data.count = Len(addresses)

\* A pass over two different addresses, in the order second, first.
C10_Witness ==
    /\ Handled("precomputeAddressDistances")
    /\ Len(request.data.addresses) = 2
    /\ request.data.addresses[1].lat < request.data.addresses[2].lat
    /\ addressesWithDistances[1].nearestHydrantDist
          # addressesWithDistances[2].nearestHydrantDist

\* C11: a precompute pass over an empty address list posts a summary whose
\* percentages and averages are all defined: none is NaN or the text 'NaN'.
C11_EmptyPassSummaryDefined ==
    (Handled("precomputeAddressDistances")
        /\ Len(request.data.addresses) = 0) =>
        LET summary == LastPosted.data.summary
        IN  /\ summary.pctWithin500 # "NaN"
            /\ summary.pctWithin1000 # "NaN"
            /\ summary.pctWithinStationMile # "NaN"
            /\ summary.avgDistance # NaN
            /\ summary.avgStationDistance # NaN

\* The stats object of the zipCodeAnalysisReady message posted last.
PostedStats == LastPosted.data.stats

\* C12: an analyzeZipCode request for a zone that contains no record of the
\* table (the empty table included) is answered with addressCount = 0, the
\* four percentage and density texts '0' and both average distances 0.
C12_EmptyZoneDefined ==
    (Handled("analyzeZipCode")
        /\ InZip(addressesWithDistances, request.data.zipCodeFeature) = <<>>)
    =>  /\ LastPosted.type = "zipCodeAnalysisReady"
        /\ PostedStats.addressCount = 0
        /\ PostedStats.coveragePercent500 = "0"
        /\ PostedStats.coveragePercent1000 = "0"
        /\ PostedStats.stationCoveragePercent = "0"
        /\ PostedStats.hydrantDensity = "0"
        /\ PostedStats.avgDistanceToHydrant = 0
        /\ PostedStats.avgDistanceToStation = 0

\* A zone with a hydrant but no address in it, the table holding an address
\* elsewhere.
C12_Witness ==
    /\ Handled("analyzeZipCode")
    /\ Len(addressesWithDistances) > 0
    /\ PostedStats.addressCount = 0
    /\ PostedStats.areaSqMiles > 0

Degenerate(f) ==
    \/ f.geometry.type \notin {"Polygon", "MultiPolygon"}
    \/ f.geometry.type = "Polygon" /\ Len(f.geometry.coordinates[1]) < 3

\* C14: for a degenerate polygon pointInPolygon answers false for every query
\* point and calculatePolygonArea answers 0.
C14_DegenerateIsEmpty ==
    (answer # Null /\ Degenerate(feature)) =>
        /\ answer.fn = "pointInPolygon" => answer.result = FALSE
        /\ answer.fn = "calculatePolygonArea" => answer.result = 0

\* The ring with its first position appended, as a closed ring ends.
CloseRing(ring) == IF Len(ring) = 0 THEN ring ELSE Append(ring, ring[1])

\* The feature with every outer ring closed once more.
Closed(f) ==
    IF f.geometry.type = "Polygon"
    THEN Feature("Polygon", <<CloseRing(f.geometry.coordinates[1])>>)
    ELSE IF f.geometry.type = "MultiPolygon"
    THEN Feature("MultiPolygon",
                 [p \in 1..Len(f.geometry.coordinates) |->
                     <<CloseRing(f.geometry.coordinates[p][1])>>])
    ELSE f

\* C15: pointInPolygon answers for a ring as it answers for the same ring
\* with its first position appended at the end.
C15_ClosureIrrelevant ==
    (answer # Null /\ answer.fn = "pointInPolygon") =>
        answer.result = pointInPolygon(answer.lat, answer.lon, Closed(feature))

\* A point found inside a Polygon whose ring does not end where it starts
\* and whose last-to-first edge decides the answer.
C15_Witness ==
    /\ answer # Null
    /\ answer.fn = "pointInPolygon"
    /\ answer.result = TRUE
    /\ feature.geometry.type = "Polygon"
    /\ LET ring == feature.geometry.coordinates[1]
       IN  /\ Len(ring) >= 3
           /\ ring[1] # ring[Len(ring)]
           /\ ~RingContainsOpen(ring, answer.lat, answer.lon)

\* The completion message each request type is answered with.
Completion(type) ==
    CASE type = "buildHydrantIndex" -> "hydrantIndexReady"
      [] type = "setStations" -> "stationsIndexReady"
      [] type = "precomputeAddressDistances" -> "addressDistancesReady"
      [] type = "analyzeZipCode" -> "zipCodeAnalysisReady"

IsKnown(message) ==
    message.type \in {"buildHydrantIndex", "setStations",
                      "precomputeAddressDistances", "analyzeZipCode"}

IsCompletion(message) == message.type # "progress"

\* The types of the messages of a list, in order.
Types(messages) == [i \in 1..Len(messages) |-> messages[i].type]

\* The requests handled so far: all that arrived but those still queued.
HandledRequests == SubSeq(arrived, 1, Len(arrived) - Len(inbox))

\* C16: the queue holds the requests not yet handled in arrival order, and
\* the completion messages posted so far are, one for one and in the same
\* order, those matching the requests of a known type handled so far.
C16_CompletionsInArrivalOrder ==
    /\ inbox = SubSeq(arrived, Len(arrived) - Len(inbox) + 1, Len(arrived))
    /\ Types(SelectSeq(outbox, IsCompletion))
          = [i \in 1..Len(SelectSeq(HandledRequests, IsKnown)) |->
                Completion(SelectSeq(HandledRequests, IsKnown)[i].type)]

\* Three requests of three known types, all handled and answered.
C16_Witness ==
    /\ Len(arrived) = 3
    /\ inbox = <<>>
    /\ Cardinality({arrived[i].type : i \in 1..3}) = 3
    /\ \A i \in 1..3 : IsKnown(arrived[i])
    /\ Len(SelectSeq(outbox, IsCompletion)) = 3

IsProgress(message) == message.type = "progress"

\* C17: the handler of a pass over N addresses posts N \div 5000 progress
\* messages, with current = 5000, 10000, ... and total = N, all of them
\* before its one addressDistancesReady; every other handler posts none.
C17_ProgressPerChunk ==
    request # Null =>
        LET n == IF request.type = "precomputeAddressDistances"
                 THEN Len(request.data.addresses) ELSE 0
            count == Len(SelectSeq(posted, IsProgress))
        IN  /\ count = n \div 5000
            /\ \A k \in 1..count :
                  /\ posted[k].type = "progress"
                  /\ posted[k].current = 5000 * k
                  /\ posted[k].current <= posted[k].total
                  /\ posted[k].total = n
            /\ request.type = "precomputeAddressDistances" =>
                  /\ Len(posted) = count + 1
                  /\ posted[count + 1].type = "addressDistancesReady"

\* A pass over 10000 addresses: progress at 5000 and at 10000, then ready.
C17_Witness ==
    /\ Handled("precomputeAddressDistances")
    /\ Len(request.data.addresses) = 10000
    /\ Len(posted) = 3
    /\ posted[1].current = 5000
    /\ posted[2].current = 10000
    /\ posted[3].type = "addressDistancesReady"
    /\ posted[3].data.count = 10000

\* C18: a pass over more than one chunk is not done in one turn of the
\* worker's event loop: no turn that takes a precomputeAddressDistances
\* request from the queue pushes more than the 5000 records of one chunk,
\* so that the loop can run between two chunks.
C18_YieldsBetweenChunks ==
    [][(inbox # <<>> /\ inbox' = Tail(inbox)
          /\ Head(inbox).type = "precomputeAddressDistances")
       => Len(addressesWithDistances') <= 5000]_vars

\* C20: an analyzeZipCode request that counts addresses is answered from
\* records of the current indexes: every record of the table is the one a
\* pass over its address would compute against the hydrant grid, the station
\* grid and the station list as they are when the request is handled.
C20_AnsweredFromCurrentIndexes ==
    (Handled("analyzeZipCode") /\ PostedStats.addressCount > 0) =>
        \A i \in DOMAIN addressesWithDistances :
            addressesWithDistances[i] =
                DistanceRecord(addressesWithDistances[i], hydrantGrid,
                               stationGrid, stationsList)

-----------------------------------------------------------------------------
(* Properties of the hook, under SpecHook *)

IsPostedCall(event) == event.event = "call" /\ event.posted

IsResponse(event) == event.event = "response"

\* C19: a posted requestZipAnalysis call that is followed by another posted
\* call before its own response (the n-th response for the n-th posted call)
\* was delivered has lost its callback: no response delivered after the
\* later call invokes it.
C19_OverwrittenNeverInvoked ==
    \A i, j \in DOMAIN history :
        (/\ i < j
         /\ IsPostedCall(history[i])
         /\ IsPostedCall(history[j])
         /\ Len(SelectSeq(SubSeq(history, 1, j), IsResponse))
              < Len(SelectSeq(SubSeq(history, 1, i), IsPostedCall)))
        => \A k \in DOMAIN history :
              (k > j /\ IsResponse(history[k]))
              => history[k].callback # history[i].callback

\* Two calls are posted with no response between them, then both responses
\* are delivered: the first invokes the second call's callback, the second
\* invokes none.
C19_Witness ==
    /\ Len(history) = 4
    /\ IsPostedCall(history[1])
    /\ IsPostedCall(history[2])
    /\ IsResponse(history[3])
    /\ history[3].callback = history[2].callback
    /\ IsResponse(history[4])
    /\ history[4].callback = Null

-----------------------------------------------------------------------------
(* Properties of the worker, continued *)

\* C21: a pass goes to its end whatever the lookups return: it leaves one
\* record per address and posts addressDistancesReady last, and the record
\* of every address for which the hydrant grid has no point within the
\* search rings has nearestHydrantDist = Infinity, within500ft = false,
\* within1000ft = false and underserved = true.
C21_SentinelIsNoCoverage ==
    Handled("precomputeAddressDistances") =>
        /\ Len(addressesWithDistances) = Len(request.data.addresses)
        /\ LastPosted.type = "addressDistancesReady"
        /\ \A i \in 1..Len(request.data.addresses) :
              LET addr == request.data.addresses[i]
                  a == addressesWithDistances[i]
              IN  FindNearest(hydrantGrid, addr.lat, addr.lon).point = Null
                  => /\ a.nearestHydrantDist = Infinity
                     /\ a.within500ft = FALSE
                     /\ a.within1000ft = FALSE
                     /\ a.underserved = TRUE

\* A pass with a hydrant indexed: the first address is beyond the rings, the
\* second has its record with a distance all the same.
C21_Witness ==
    /\ Handled("precomputeAddressDistances")
    /\ Len(hydrantsList) = 1
    /\ Len(addressesWithDistances) = 2
    /\ addressesWithDistances[1].nearestHydrantDist = Infinity
    /\ addressesWithDistances[1].underserved
    /\ addressesWithDistances[2].nearestHydrantDist = 500
    /\ LastPosted.data.count = 2

\* A request for an index without its list, or with a null entry in it.
Malformed(message) ==
    \/ /\ message.type = "buildHydrantIndex"
       /\ \/ "hydrants" \notin DOMAIN message.data
          \/ Throws(message.data.hydrants)
    \/ /\ message.type = "setStations"
       /\ \/ "stations" \notin DOMAIN message.data
          \/ Throws(message.data.stations)

IsError(message) == message.type = "error"

\* C22: the turn of the worker that takes a malformed buildHydrantIndex or
\* setStations request posts an error message and leaves both grids and both
\* lists as they were.
C22_MalformedRejected ==
    [][(inbox # <<>> /\ inbox' = Tail(inbox) /\ Malformed(Head(inbox)))
       => /\ \E i \in 1..Len(posted') : IsError(posted'[i])
          /\ hydrantGrid' = hydrantGrid
          /\ stationGrid' = stationGrid
          /\ UNCHANGED <<hydrantsList, stationsList>>]_vars

\* C23: a step that handles analyzeZipCode leaves both grids, both lists and
\* the table as they are, and the statistics it posts are those of its zone
\* over that state alone, whatever was analysed before; so a request that
\* follows an analysis of the same zone gets the same statistics again.
C23_AnalysisReadsOnly ==
    [][request'.type = "analyzeZipCode"
       => /\ UNCHANGED <<hydrantGrid, stationGrid, hydrantsList, stationsList,
                         addressesWithDistances>>
          /\ Len(posted') = 1
          /\ posted'[1].data.stats =
                Stats(request'.data.zipCodeFeature, hydrantsList,
                      stationsList, addressesWithDistances)
          /\ (Handled("analyzeZipCode")
                /\ request.data.zipCodeFeature = request'.data.zipCodeFeature)
             => posted'[1].data.stats = posted[1].data.stats]_vars

\* A zone analysed over a table of two records with a hydrant and a station
\* indexed, all of them counted.
C23_Witness ==
    /\ Handled("analyzeZipCode")
    /\ PostedStats.addressCount = 2
    /\ PostedStats.hydrantCount = 1
    /\ PostedStats.stationCount = 1
    /\ Len(addressesWithDistances) = 2

\* C30: the counts of a Global Summary satisfy within500ft <= within1000ft
\* and within1000ft + underserved = count; those of a zone's statistics
\* satisfy addressesWithin500ft <= addressesWithin1000ft <= addressCount,
\* addressesWithin1000ft + addressesUnderserved = addressCount, and
\* addressCount is at most the number of records of the table.
C30_CountsPartition ==
    /\ Handled("precomputeAddressDistances") =>
          LET summary == LastPosted.data.summary
          IN  /\ 0 <= summary.within500ft
              /\ summary.within500ft <= summary.within1000ft
              /\ 0 <= summary.underserved
              /\ summary.within1000ft + summary.underserved
                    = LastPosted.data.count
    /\ Handled("analyzeZipCode") =>
          /\ 0 <= PostedStats.addressesWithin500ft
          /\ PostedStats.addressesWithin500ft
                <= PostedStats.addressesWithin1000ft
          /\ PostedStats.addressesWithin1000ft <= PostedStats.addressCount
          /\ 0 <= PostedStats.addressesUnderserved
          /\ PostedStats.addressesWithin1000ft
                + PostedStats.addressesUnderserved = PostedStats.addressCount
          /\ PostedStats.addressCount <= Len(addressesWithDistances)

\* A zone around one of two addresses, that one between 500 and 1000 ft
\* from its hydrant.
C30_Witness ==
    /\ Handled("analyzeZipCode")
    /\ Len(addressesWithDistances) = 2
    /\ PostedStats.addressCount = 1
    /\ PostedStats.addressesWithin500ft = 0
    /\ PostedStats.addressesWithin1000ft = 1

\* The outer rings of a feature's polygons.
OuterRings(f) ==
    IF f.geometry.type = "Polygon" THEN <<f.geometry.coordinates[1]>>
    ELSE IF f.geometry.type = "MultiPolygon"
    THEN [p \in 1..Len(f.geometry.coordinates) |-> f.geometry.coordinates[p][1]]
    ELSE <<>>

\* Two areas that differ by at most a hundredth of the larger, which covers
\* the change of the average latitude by one more position.
Alike(a, b) == Abs(a - b) <= (IF a > b THEN a ELSE b) \div 100

\* C25: calculatePolygonArea gives a feature whose rings have three or more
\* positions the area it gives the same feature with the first position of
\* every ring appended at its end.
C25_AreaClosureIrrelevant ==
    (/\ answer # Null
     /\ answer.fn = "calculatePolygonArea"
     /\ \A r \in 1..Len(OuterRings(feature)) :
           Len(OuterRings(feature)[r]) >= 3)
    => Alike(answer.result, calculatePolygonArea(Closed(feature)))

-----------------------------------------------------------------------------
(* Properties of the hook, continued *)

\* The posted calls and the responses of a run, each in their order: the
\* worker answers in order, so the k-th response carries the statistics of
\* the k-th posted call's polygon.
PostedCalls == SelectSeq(history, IsPostedCall)

Responses == SelectSeq(history, IsResponse)

\* C26: a callback invoked with statistics was registered by the call whose
\* polygon the statistics were computed for.
C26_CallbackGetsOwnZone ==
    \A k \in 1..Len(Responses) :
        Responses[k].callback # Null
        => \A j \in 1..Len(PostedCalls) :
              PostedCalls[j].callback = Responses[k].callback
              => PostedCalls[j].feature = PostedCalls[k].feature

\* The worker is ready, the last render saw every value set and every list
\* loaded since, and the worker has handled every message posted to it.
Settled ==
    /\ rendered # Null
    /\ Snapshot = rendered
    /\ rendered.workerReady
    /\ workerRef # Null
    /\ inbox = <<>>

\* C28: once the worker is ready and has handled every posted message, its
\* hydrantsList is the caller's hydrants and its stationsList is the caller's
\* stations, an empty list included.
C28_WorkerMirrorsCaller ==
    Settled => /\ hydrantsList = datasets.hydrants.list
               /\ stationsList = datasets.stations.list

\* A request of the type waits in the worker's queue, or the response to one
\* waits for the hook's onmessage.
Outstanding(requestType, responseType) ==
    \/ \E i \in 1..Len(inbox) : inbox[i].type = requestType
    \/ \E i \in 1..Len(outbox) : outbox[i].type = responseType

\* C29: hydrantIndexReady is true only while no buildHydrantIndex request
\* awaits its response, and addressDistancesReady is true only while no
\* precomputeAddressDistances request awaits its response.
C29_ReadyMeansNothingOutstanding ==
    /\ hookState.hydrantIndexReady
          => ~Outstanding("buildHydrantIndex", "hydrantIndexReady")
    /\ hookState.addressDistancesReady
          => ~Outstanding("precomputeAddressDistances", "addressDistancesReady")

\* The number of messages of a type in a queue.
CountType(queue, type) ==
    Cardinality({i \in 1..Len(queue) : queue[i].type = type})

\* The hydrantIndexReady responses the hook has received: one per build the
\* worker has handled, less those still on their way.
ReceivedHydrantIndexReady ==
    CountType(HandledRequests, "buildHydrantIndex")
        - CountType(outbox, "hydrantIndexReady")

\* The places of the buildHydrantIndex messages posted before the message
\* the worker handled last.
BuildsBeforeHandled ==
    {j \in 1..(Len(HandledRequests) - 1) :
        arrived[j].type = "buildHydrantIndex"}

\* The hydrant list of the last of them.
LatestHydrantsPosted ==
    arrived[CHOOSE j \in BuildsBeforeHandled :
                \A k \in BuildsBeforeHandled : k <= j].data.hydrants

\* C24: a precomputeAddressDistances message is posted only with a non-empty
\* address list and after a hydrantIndexReady response was received; and a
\* pass the worker has run came after a buildHydrantIndex, and ran on the
\* index of the hydrant list posted last before the pass's message.
C24_PrecomputeAfterIndex ==
    /\ \A i \in 1..Len(arrived) :
          arrived[i].type = "precomputeAddressDistances"
          => /\ Len(arrived[i].data.addresses) > 0
             /\ ReceivedHydrantIndexReady >= 1
    /\ Handled("precomputeAddressDistances")
          => /\ BuildsBeforeHandled # {}
             /\ hydrantsList = LatestHydrantsPosted
             /\ hydrantGrid =
                    InsertAll(NewSpatialGrid(HydrantCellSize),
                              LatestHydrantsPosted, 1, FALSE)
             /\ \A i \in 1..Len(request.data.addresses) :
                   addressesWithDistances[i].nearestHydrantDist =
                       FindNearest(InsertAll(NewSpatialGrid(HydrantCellSize),
                                             LatestHydrantsPosted, 1, FALSE),
                                   request.data.addresses[i].lat,
                                   request.data.addresses[i].lon).distance

\* The worker has run a pass posted after two builds of different hydrant
\* lists, the one at 1000 ft posted last.
C24_Witness ==
    /\ Handled("precomputeAddressDistances")
    /\ Cardinality(BuildsBeforeHandled) = 2
    /\ LatestHydrantsPosted = <<At(20, 24)>>
    /\ Len(addressesWithDistances) = 1
    /\ addressesWithDistances[1].nearestHydrantDist = 1000

\* The caller's lists are as last rendered, hydrants and addresses are not
\* empty, and every message and every response has been delivered.
Quiescent ==
    /\ Settled
    /\ outbox = <<>>
    /\ Len(datasets.hydrants.list) > 0
    /\ Len(datasets.addresses.list) > 0

\* The distance table of the caller's current lists.
CurrentTable ==
    [i \in 1..Len(datasets.addresses.list) |->
        DistanceRecord(datasets.addresses.list[i],
                       InsertAll(NewSpatialGrid(HydrantCellSize),
                                 datasets.hydrants.list, 1, FALSE),
                       InsertAll(NewSpatialGrid(StationCellSize),
                                 datasets.stations.list, 1, TRUE),
                       datasets.stations.list)]

\* C27: once the caller has stopped loading and every message and response
\* has been delivered, the worker's table is the table of the caller's
\* current addresses, hydrants and stations.
C27_TableOfCurrentData ==
    Quiescent => addressesWithDistances = <<>> \o CurrentTable

====
